---- MODULE Spec2Model ----
(***************************************************************************)
(* Verification model of libertininick/Baseball:                           *)
(*   - the categorical level encoder InputLevels (shap_explainer, used by  *)
(*     notebooks/mlb_feature_explainer.py),                                *)
(*   - the sample builder get_inputs / get_sample of the notebook,         *)
(*   - html_table_to_df of web_scraper_tools.py.                           *)
(* Three specifications share the module: SpecEnc, SpecSample, SpecHtml.   *)
(***************************************************************************)
EXTENDS Integers, Sequences, FiniteSets, TLC

VARIABLES
    \* ---- InputLevels instance and the last call made on it
    values, min_obs, levels, index_of, value_of, pc,
    call, argv, argi, reti, retv, retNone, seen,
    \* ---- get_sample on one sampled record
    row, home_tm_last, x, x_enc, vis_hm_idx, mask_p, mpos, targets, spc,
    \* ---- html_table_to_df
    table, n_columns, n_rows, column_names, df, raised, hpc

encVars  == <<values, min_obs, levels, index_of, value_of, pc,
              call, argv, argi, reti, retv, retNone, seen>>
smpVars  == <<row, home_tm_last, x, x_enc, vis_hm_idx, mask_p, mpos, targets, spc>>
htmlVars == <<table, n_columns, n_rows, column_names, df, raised, hpc>>
vars     == <<encVars, smpVars, htmlVars>>

\* ------------------------------------------------------------------ bounds
MaxLen    == 4      \* longest construction array
MaxMinObs == 3      \* largest min_obs threshold tried

\* ------------------------------------------------------------- generic helpers
Range(s) == {s[i] : i \in 1..Len(s)}

SeqsUpTo(S, n) == UNION {[1..k -> S] : k \in 0..n}

SetMax(S) == CHOOSE m \in S : \A k \in S : k <= m

\* =========================================================================
\* InputLevels (categorical level encoder)
\* =========================================================================

\* the reserved catch-all level
Other == "OTHER"

\* raw values a construction array may hold; "OTHER" is an ordinary string
\* and may occur in data
Raw == {"a", "b", Other}

\* raw values looked up after construction; "z" never occurs in any array
LookupRaw == Raw \cup {"z"}

\* number of occurrences of v in the construction array
Count(vs, v) == Cardinality({i \in 1..Len(vs) : vs[i] = v})

\* distinct values of the array in first-seen order (the documented
\* deterministic order)
FirstSeen(vs) ==
    LET firsts == {i \in 1..Len(vs) : \A j \in 1..(i - 1) : vs[j] # vs[i]}
    IN  [k \in 1..Cardinality(firsts) |->
            vs[CHOOSE i \in firsts : Cardinality({j \in firsts : j < i}) = k - 1]]

\* mutant: exclusive threshold
RetainedStrict(vs, m) == SelectSeq(FirstSeen(vs), LAMBDA v : Count(vs, v) > m)

\* the distinct raw values meeting the threshold (inclusive)
Retained(vs, m) == SelectSeq(FirstSeen(vs), LAMBDA v : Count(vs, v) >= m)

\* retained values, then the catch-all level appended last
Levels(vs, m) == Append(Retained(vs, m), Other)

\* raw value -> zero-based index, assigned by position; a level occurring at
\* two positions keeps the later one (hash-map assignment in position order)
IndexOf(lv) ==
    [v \in Range(lv) |-> SetMax({i - 1 : i \in {j \in 1..Len(lv) : lv[j] = v}})]

\* zero-based index -> raw value
ValueOf(lv) == [i \in 0..(Len(lv) - 1) |-> lv[i + 1]]

catch_all_index(lv) == Len(lv) - 1

\* mutant: unknown values resolve to index 0
get_indexes_zero(io, lv, v) == IF v \in DOMAIN io THEN io[v] ELSE 0

\* total lookup with the explicit catch-all fallback
get_indexes(io, lv, v) == IF v \in DOMAIN io THEN io[v] ELSE catch_all_index(lv)

\* safe lookup: an index outside the mapping yields None
get_levels(vo, i) ==
    IF i \in DOMAIN vo THEN [none |-> FALSE, val |-> vo[i]]
    ELSE [none |-> TRUE, val |-> ""]

EmptyMap == [k \in {} |-> 0]

\* indices tried with get_levels: one below and two above every valid range
LevelIdx == -1..(MaxLen + 2)

EncNoCall ==
    /\ call = "none" /\ argv = "" /\ argi = 0 /\ reti = 0
    /\ retv = "" /\ retNone = FALSE

InitEnc ==
    /\ values \in SeqsUpTo(Raw, MaxLen)
    /\ min_obs \in 0..MaxMinObs
    /\ levels = <<>> /\ index_of = EmptyMap /\ value_of = EmptyMap
    /\ pc = "new"
    /\ EncNoCall
    /\ seen = {}

\* InputLevels(values, min_obs)
Construct ==
    /\ pc = "new"
    /\ levels'   = Levels(values, min_obs)
    /\ index_of' = IndexOf(Levels(values, min_obs))
    /\ value_of' = ValueOf(Levels(values, min_obs))
    /\ pc' = "built"
    /\ call' = "construct"
    /\ UNCHANGED <<values, min_obs, argv, argi, reti, retv, retNone, seen>>
    /\ UNCHANGED <<smpVars, htmlVars>>

\* mutant: a default-dict lookup that stores the missing key
GetIndexesInserting ==
    /\ pc = "built"
    /\ \E v \in LookupRaw :
        /\ call' = "get_indexes"
        /\ argv' = v
        /\ reti' = get_indexes(index_of, levels, v)
        /\ seen' = seen \cup {<<v, get_indexes(index_of, levels, v)>>}
        /\ index_of' = [k \in DOMAIN index_of \cup {v} |->
                            get_indexes(index_of, levels, k)]
        /\ argi' = 0 /\ retv' = "" /\ retNone' = FALSE
    /\ UNCHANGED <<values, min_obs, levels, value_of, pc>>
    /\ UNCHANGED <<smpVars, htmlVars>>

\* get_indexes(v) on a single raw value
GetIndexes ==
    /\ pc = "built"
    /\ \E v \in LookupRaw :
        /\ call' = "get_indexes"
        /\ argv' = v
        /\ reti' = get_indexes(index_of, levels, v)
        /\ seen' = seen \cup {<<v, get_indexes(index_of, levels, v)>>}
        /\ argi' = 0 /\ retv' = "" /\ retNone' = FALSE
    /\ UNCHANGED <<values, min_obs, levels, index_of, value_of, pc>>
    /\ UNCHANGED <<smpVars, htmlVars>>

\* get_levels(i) on a single index
GetLevels ==
    /\ pc = "built"
    /\ \E i \in LevelIdx :
        /\ call' = "get_levels"
        /\ argi' = i
        /\ retv' = get_levels(value_of, i).val
        /\ retNone' = get_levels(value_of, i).none
        /\ argv' = "" /\ reti' = 0
    /\ UNCHANGED <<values, min_obs, levels, index_of, value_of, pc, seen>>
    /\ UNCHANGED <<smpVars, htmlVars>>

\* =========================================================================
\* Sample builder (notebooks/mlb_feature_explainer.py)
\* =========================================================================

\* resolution of the modelled random draws: rand() takes the values k/RandN,
\* k in 0..RandN-1 (never 1.0); mask_p takes the values j/RandN, j in 0..RandN
RandN == 3

nb_min_obs == 30

default_min_obs == 1

Rep(v, n) == [i \in 1..n |-> v]

\* columns of df_subset, summarised by the multiplicity of each value: one
\* value exactly at the threshold, one above it, the others below it
YearCol      == Rep("2000", nb_min_obs) \o Rep("2001", nb_min_obs + 1) \o <<"1999">>
MonthCol     == Rep("4", nb_min_obs)
DayCol       == Rep("Sun", nb_min_obs)
DayNightCol  == Rep("D", nb_min_obs)
ParkCol      == Rep("BOS07", nb_min_obs)
LeagueCol    == Rep("AL", nb_min_obs)
UmpCol       == Rep("u1", nb_min_obs)
VisTmCol     == Rep("BOS", nb_min_obs - 1) \o <<"XXX", "XXX">>
HmTmCol      == <<"BOS">> \o Rep("NYA", nb_min_obs) \o <<"YYY">>
VisPchCol    == Rep("p1", nb_min_obs) \o Rep("p2", nb_min_obs)
HmPchCol     == Rep("p1", nb_min_obs)
VisMgrCol    == Rep("m1", nb_min_obs)
HmMgrCol     == Rep("m1", nb_min_obs)

Attendances  == {"low", "med", "high"}

input_levels ==
    [years       |-> Levels(YearCol, nb_min_obs),
     months      |-> Levels(MonthCol, nb_min_obs),
     dow         |-> Levels(DayCol, nb_min_obs),
     time_of_day |-> Levels(DayNightCol, nb_min_obs),
     parks       |-> Levels(ParkCol, nb_min_obs),
     leagues     |-> Levels(LeagueCol, nb_min_obs),
     umps        |-> Levels(UmpCol, nb_min_obs),
     teams       |-> Levels(VisTmCol \o HmTmCol, nb_min_obs),
     pitchers    |-> Levels(VisPchCol \o HmPchCol, nb_min_obs),
     managers    |-> Levels(VisMgrCol \o HmMgrCol, nb_min_obs),
     home_away   |-> Levels(<<"away_low", "away_med", "away_high",
                              "home_low", "home_med", "home_high">>,
                            default_min_obs)]

\* input_levels[f].get_indexes(v)
enc(f, v) == get_indexes(IndexOf(input_levels[f]), input_levels[f], v)

common_inputs(r) ==
    <<enc("years", r.Year), enc("months", r.Month), enc("dow", r.Day),
      enc("time_of_day", r.DayNight), enc("parks", r.ParkID),
      enc("leagues", r.HmTmLg), enc("umps", r.UmpHID)>>

vis_block(r) ==
    <<enc("teams", r.VisTmYr), enc("pitchers", r.VisStPchID),
      enc("managers", r.VisMgrID)>>

hm_block(r) ==
    <<enc("teams", r.HmTmYr), enc("pitchers", r.HmStPchID),
      enc("managers", r.HmMgrID)>>

\* mutant: the else branch keeps the visiting block first
get_inputs_no_swap(r, hm_last) ==
    common_inputs(r) \o vis_block(r) \o hm_block(r) \o
    (IF hm_last THEN <<enc("home_away", "home_" \o r.Attendance)>>
     ELSE <<enc("home_away", "away_" \o r.Attendance)>>)

get_inputs(r, hm_last) ==
    IF hm_last
    THEN common_inputs(r) \o vis_block(r) \o hm_block(r) \o
         <<enc("home_away", "home_" \o r.Attendance)>>
    ELSE common_inputs(r) \o hm_block(r) \o vis_block(r) \o
         <<enc("home_away", "away_" \o r.Attendance)>>

\* number of encoded positions, len(input_features)
n_inputs == Len(<<"year", "month", "dow", "time_of_day", "park", "league", "ump",
                  "opp_team", "opp_pitcher", "opp_manager",
                  "team", "pitcher", "manager", "home_away">>)

\* Python's  sub in s  on strings
Contains(sub, s) ==
    \E i \in 1..(Len(s) - Len(sub) + 1) : SubSeq(s, i, i + Len(sub) - 1) = sub

\* mutant: the perspective test looks for 'away'
perspective_away(lv) == IF lv.none THEN 0 ELSE IF Contains("away", lv.val) THEN 1 ELSE 0

\* ('home' in x) if x is not None else False, as an int
perspective(lv) == IF lv.none THEN 0 ELSE IF Contains("home", lv.val) THEN 1 ELSE 0

\* mutant: inverted comparison
masked_value_inverted(v, r, p) == IF r >= p THEN 0 ELSE v

\* x[mask] = 0 at one position, mask = rand <= mask_p (both in units of 1/RandN)
masked_value(v, r, p) == IF r <= p THEN 0 ELSE v

\* run totals present in the data
RunsVals == {0, 1, 2}

RECURSIVE SortedSeq(_)
SortedSeq(S) ==
    IF S = {} THEN <<>>
    ELSE LET m == SetMax(S) IN Append(SortedSeq(S \ {m}), m)

\* get_binary_targets, lines 185-194: the modelled statistic has no more than
\* n_q = 10 distinct values, so the thresholds are its sorted distinct values
\* (line 188) without the largest (line 194)
quantiles == SubSeq(SortedSeq(RunsVals), 1, Cardinality(RunsVals) - 1)

binary_targets(v) == [i \in 1..Len(quantiles) |-> v <= quantiles[i]]

VisWin(r) == r.VisRuns > r.HmRuns
HmWin(r)  == r.HmRuns >= r.VisRuns

\* element idx (0 = Vis, 1 = Hm) of a stacked (Vis, Hm) pair
pick(pair, idx) == pair[idx + 1]

Rows ==
    [Year : {"2000", "1999"}, Month : {"4"}, Day : {"Sun"}, DayNight : {"D"},
     ParkID : {"BOS07"}, HmTmLg : {"AL"}, UmpHID : {"u1"},
     VisTmYr : {"BOS", "XXX"}, VisStPchID : {"p1", "p2"}, VisMgrID : {"m1"},
     HmTmYr : {"BOS", "NYA", "YYY"}, HmStPchID : {"p1"}, HmMgrID : {"m1"},
     Attendance : Attendances,
     VisRuns : RunsVals, HmRuns : RunsVals]

NoTargets == [Win |-> FALSE, Runs_team |-> <<>>, Runs_opp |-> <<>>]

InitSample ==
    /\ row \in Rows
    /\ mask_p \in 0..RandN
    /\ home_tm_last = FALSE
    /\ x = <<>> /\ x_enc = <<>>
    /\ vis_hm_idx = 0
    /\ mpos = 0
    /\ targets = NoTargets
    /\ spc = "start"

\* line 227: x = get_inputs(r, rnd.rand() <= 0.5)
SampleEncode ==
    /\ spc = "start"
    /\ \E k \in 0..(RandN - 1) :
        /\ home_tm_last' = (2 * k <= RandN)
        /\ x' = get_inputs(row, 2 * k <= RandN)
        /\ x_enc' = get_inputs(row, 2 * k <= RandN)
    /\ spc' = "encoded"
    /\ UNCHANGED <<row, vis_hm_idx, mask_p, mpos, targets>>
    /\ UNCHANGED <<encVars, htmlVars>>

\* lines 229-233: perspective recovered from the last column of x
SamplePerspective ==
    /\ spc = "encoded"
    /\ vis_hm_idx' = perspective(get_levels(ValueOf(input_levels.home_away),
                                            x[Len(x)]))
    /\ IF mask_p > 0
       THEN spc' = "masking" /\ mpos' = 1
       ELSE spc' = "masked" /\ mpos' = mpos
    /\ UNCHANGED <<row, home_tm_last, x, x_enc, mask_p, targets>>
    /\ UNCHANGED <<encVars, htmlVars>>

\* lines 235-237, one position of x at a time
SampleMask ==
    /\ spc = "masking"
    /\ \E k \in 0..(RandN - 1) :
        x' = [x EXCEPT ![mpos] = masked_value(x[mpos], k, mask_p)]
    /\ IF mpos = Len(x)
       THEN spc' = "masked" /\ mpos' = mpos
       ELSE spc' = "masking" /\ mpos' = mpos + 1
    /\ UNCHANGED <<row, home_tm_last, x_enc, vis_hm_idx, mask_p, targets>>
    /\ UNCHANGED <<encVars, htmlVars>>

\* lines 240-254
SampleTargets ==
    /\ spc = "masked"
    /\ targets' =
        [Win       |-> pick(<<VisWin(row), HmWin(row)>>, vis_hm_idx),
         Runs_team |-> pick(<<binary_targets(row.VisRuns),
                              binary_targets(row.HmRuns)>>, vis_hm_idx),
         Runs_opp  |-> pick(<<binary_targets(row.VisRuns),
                              binary_targets(row.HmRuns)>>, 1 - vis_hm_idx)]
    /\ spc' = "done"
    /\ UNCHANGED <<row, home_tm_last, x, x_enc, vis_hm_idx, mask_p, mpos>>
    /\ UNCHANGED <<encVars, htmlVars>>

\* =========================================================================
\* html_table_to_df (web_scraper_tools.py)
\* =========================================================================

MaxRows  == 3      \* most tr elements of a table
MaxCells == 2      \* most th, and most td, cells of one tr

\* td texts: "1" parses as a float, "x" does not
Text == {"1", "x"}
IsFloatText(t) == t = "1"

\* th texts of a row with k header cells (pairwise distinct titles)
HeaderTexts(k) == [i \in 1..k |-> "H" \o ToString(i)]

\* a tr element: the texts of its th cells and of its td cells
TrRows == [th : {HeaderTexts(k) : k \in 0..MaxCells}, td : SeqsUpTo(Text, MaxCells)]

Tables == SeqsUpTo(TrRows, MaxRows)

\* lines 23-37: one iteration of the first loop
scan_row(acc, r) ==
    LET a1 == IF Len(r.td) > 0
              THEN [acc EXCEPT !.n_rows = @ + 1,
                               !.n_columns = IF @ = 0 THEN Len(r.td) ELSE @]
              ELSE acc
    IN  IF Len(r.th) > 0 /\ Len(a1.column_names) = 0
        THEN [a1 EXCEPT !.column_names = r.th]
        ELSE a1

RECURSIVE scan(_, _)
scan(t, k) ==
    IF k = 0 THEN [n_columns |-> 0, n_rows |-> 0, column_names |-> <<>>]
    ELSE scan_row(scan(t, k - 1), t[k])

\* a cell of the frame: NaN, the text of a td, or that text converted to float
NaN == [kind |-> "nan", text |-> ""]
StrCell(t) == [kind |-> "str", text |-> t]
FloatCell(t) == [kind |-> "float", text |-> t]

\* line 44: an all-NaN frame of n_rows x n_columns
empty_frame(nr, nc) == [r \in 1..nr |-> [c \in 1..nc |-> NaN]]

\* lines 47-54: one iteration of the second loop; df.iat raises IndexError
\* for a column_marker outside the frame
fill_row(st, r) ==
    IF st.err \/ Len(r.td) = 0 THEN st
    ELSE IF Len(r.td) > Len(st.df[st.row_marker + 1])
         THEN [st EXCEPT !.err = TRUE]
         ELSE [st EXCEPT
                 !.df = [@ EXCEPT ![st.row_marker + 1] =
                            [c \in DOMAIN @ |->
                                IF c <= Len(r.td) THEN StrCell(r.td[c]) ELSE @[c]]],
                 !.row_marker = @ + 1]

RECURSIVE fill(_, _, _)
fill(t, k, frame) ==
    IF k = 0 THEN [df |-> frame, row_marker |-> 0, err |-> FALSE]
    ELSE fill_row(fill(t, k - 1, frame), t[k])

\* lines 57-61: a column is converted when every cell of it converts
convertible(cell) == cell.kind = "nan" \/ IsFloatText(cell.text)

to_float(frame) ==
    [r \in DOMAIN frame |->
        [c \in DOMAIN frame[r] |->
            IF /\ \A q \in DOMAIN frame : convertible(frame[q][c])
               /\ frame[r][c].kind = "str"
            THEN FloatCell(frame[r][c].text)
            ELSE frame[r][c]]]

InitHtml ==
    /\ table \in Tables
    /\ n_columns = 0 /\ n_rows = 0 /\ column_names = <<>>
    /\ df = <<>>
    /\ raised = "none"
    /\ hpc = "start"

html_table_to_df ==
    /\ hpc = "start"
    /\ LET sc == scan(table, Len(table))
           fl == fill(table, Len(table), empty_frame(sc.n_rows, sc.n_columns))
       IN  /\ n_columns' = sc.n_columns
           /\ n_rows' = sc.n_rows
           /\ column_names' = sc.column_names
           /\ IF Len(sc.column_names) > 0 /\ Len(sc.column_names) # sc.n_columns
              THEN raised' = "ColumnTitles" /\ df' = df
              ELSE IF fl.err
                   THEN raised' = "IndexError" /\ df' = df
                   ELSE raised' = "none" /\ df' = to_float(fl.df)
    /\ hpc' = "done"
    /\ UNCHANGED table
    /\ UNCHANGED <<encVars, smpVars>>

\* =========================================================================
\* Specifications
\* =========================================================================

IdleEnc ==
    /\ values = <<>> /\ min_obs = 0
    /\ levels = <<>> /\ index_of = EmptyMap /\ value_of = EmptyMap
    /\ pc = "idle" /\ EncNoCall /\ seen = {}

IdleSample ==
    /\ row = [Attendance |-> "low"] /\ mask_p = 0 /\ home_tm_last = FALSE
    /\ x = <<>> /\ x_enc = <<>> /\ vis_hm_idx = 0 /\ mpos = 0
    /\ targets = NoTargets /\ spc = "idle"

IdleHtml ==
    /\ table = <<>> /\ n_columns = 0 /\ n_rows = 0 /\ column_names = <<>>
    /\ df = <<>> /\ raised = "none" /\ hpc = "idle"

InitEncSpec    == InitEnc /\ IdleSample /\ IdleHtml
InitSampleSpec == IdleEnc /\ InitSample /\ IdleHtml
InitHtmlSpec   == IdleEnc /\ IdleSample /\ InitHtml

NextEnc    == Construct \/ GetIndexes \/ GetLevels
NextSample == SampleEncode \/ SamplePerspective \/ SampleMask \/ SampleTargets
NextHtml   == html_table_to_df

SpecEnc    == InitEncSpec /\ [][NextEnc]_vars
SpecSample == InitSampleSpec /\ [][NextSample]_vars
SpecHtml   == InitHtmlSpec /\ [][NextHtml]_vars

\* =========================================================================
\* Properties of InputLevels (checked under SpecEnc)
\* =========================================================================

Built == pc = "built"

\* u is not a retained level: never seen at construction, or seen fewer than
\* min_obs times
NotRetained(u) == u \notin Range(values) \/ Count(values, u) < min_obs

\* v was observed at least min_obs times in the construction array
Frequent(v) == v \in Range(values) /\ Count(values, v) >= min_obs

\* C1: get_indexes of a raw value that is not a retained level returns the
\* catch-all index len(levels)-1, on every call (the model's get_indexes has
\* no failing path)
C1_UnknownToCatchAll ==
    (Built /\ call = "get_indexes" /\ NotRetained(argv))
        => reti = Len(levels) - 1

C1_Witness ==
    /\ Built /\ call = "get_indexes" /\ argv = "z"
    /\ reti = Len(levels) - 1 /\ Len(levels) > 1
    /\ \E p \in seen : p[1] # "z"

\* C2: get_indexes of a raw value observed at least min_obs times returns an
\* index in [0, len(levels)-1), never the catch-all index, and get_levels of
\* that index gives the value back
C2_FrequentRoundTrip ==
    (Built /\ call = "get_indexes" /\ Frequent(argv))
        => /\ reti \in 0..(Len(levels) - 2)
           /\ get_levels(value_of, reti) = [none |-> FALSE, val |-> argv]

\* C3: construction keeps as levels exactly the distinct raw values whose
\* count is >= min_obs (inclusive), each once, followed by the catch-all; an
\* empty array or a threshold above every count leaves only the catch-all;
\* construction is always possible
C3_RetainedExactly ==
    /\ pc = "new" => ENABLED Construct
    /\ Built =>
        /\ Len(levels) >= 1
        /\ levels[Len(levels)] = Other
        /\ Range(SubSeq(levels, 1, Len(levels) - 1)) = {v \in Raw : Frequent(v)}
        /\ Len(levels) - 1 = Cardinality({v \in Raw : Frequent(v)})
        /\ (\A v \in Range(values) : Count(values, v) < min_obs)
               => levels = <<Other>>

C3_Witness ==
    /\ Built /\ min_obs >= 2
    /\ \E v \in Range(values), w \in Range(values) :
        /\ Count(values, v) = min_obs
        /\ Count(values, w) = min_obs - 1
        /\ v \in Range(SubSeq(levels, 1, Len(levels) - 1))
        /\ w \notin Range(SubSeq(levels, 1, Len(levels) - 1))

\* C4: levels holds no duplicates, and the catch-all level "OTHER" occurs
\* exactly once, at the highest index
C4_NoDuplicatesOtherLast ==
    Built =>
        /\ \A i, j \in 1..Len(levels) : levels[i] = levels[j] => i = j
        /\ {i \in 1..Len(levels) : levels[i] = Other} = {Len(levels)}

C6_OutOfRangeNotNone ==
    (Built /\ call = "get_levels" /\ argi \notin 0..(Len(levels) - 1))
        => ~retNone

\* =========================================================================
\* Properties of the sample builder (checked under SpecSample)
\* =========================================================================

TeamSideTargets(r, hm) ==
    IF hm
    THEN [Win |-> HmWin(r), Runs_team |-> binary_targets(r.HmRuns),
          Runs_opp |-> binary_targets(r.VisRuns)]
    ELSE [Win |-> VisWin(r), Runs_team |-> binary_targets(r.VisRuns),
          Runs_opp |-> binary_targets(r.HmRuns)]

\* C7: the targets of a sample are those of the side chosen when the record
\* was encoded (home side iff home_tm_last), whatever the masking did
C7_TargetsFollowPerspective ==
    spc = "done" => targets = TeamSideTargets(row, home_tm_last)

C7_Witness ==
    /\ spc = "done" /\ home_tm_last
    /\ x[Len(x)] = 0 /\ x_enc[Len(x_enc)] # 0
    /\ row.VisRuns # row.HmRuns
    /\ targets.Runs_team # targets.Runs_opp

\* get_inputs has returned and x is not yet masked
JustEncoded == spc = "encoded"

n_common == Len(common_inputs(row))
n_block  == Len(vis_block(row))

\* the documented field-order swap: the opp_* block exchanged with the team
\* block, every other position kept
SwapBlocks(v) ==
    [k \in 1..Len(v) |->
        IF k \in (n_common + 1)..(n_common + n_block) THEN v[k + n_block]
        ELSE IF k \in (n_common + n_block + 1)..(n_common + 2 * n_block)
             THEN v[k - n_block]
             ELSE v[k]]

Symmetric(r) ==
    /\ r.VisTmYr = r.HmTmYr /\ r.VisStPchID = r.HmStPchID
    /\ r.VisMgrID = r.HmMgrID

\* C8 as claimed: the encoding with the other flag value is the block-swapped
\* permutation of this one, and the two are equal only for a symmetric record
C8_SwapIsPermutation ==
    JustEncoded =>
        LET other == get_inputs(row, ~home_tm_last)
        IN  /\ other = SwapBlocks(x_enc)
            /\ (other = x_enc => Symmetric(row))

\* C8 as amended: the two encodings agree up to the block swap on every
\* position but the last; the last (home_away) position holds the index of
\* 'home_<attendance>' in one and of 'away_<attendance>' in the other, which
\* differ, so the two vectors are never identical
C8_SwapExceptHomeAway ==
    JustEncoded =>
        LET other == get_inputs(row, ~home_tm_last)
            n     == Len(x_enc)
        IN  /\ n = n_inputs /\ Len(other) = n
            /\ \A k \in 1..(n - 1) : other[k] = SwapBlocks(x_enc)[k]
            /\ {x_enc[n], other[n]} =
                   {enc("home_away", "home_" \o row.Attendance),
                    enc("home_away", "away_" \o row.Attendance)}
            /\ x_enc[n] # other[n]
            /\ other # x_enc

C8_Witness ==
    /\ spc = "encoded" /\ ~home_tm_last
    /\ vis_block(row) # hm_block(row)
    /\ SubSeq(x_enc, n_common + 1, n_common + n_block) = hm_block(row)

\* C9: every position of the masked vector is its unmasked index or 0, and
\* with mask_p = 1.0 the masked vector is all zero
C9_MaskZeroes ==
    spc \in {"masked", "done"} =>
        /\ \A k \in 1..Len(x) : x[k] = x_enc[k] \/ x[k] = 0
        /\ mask_p = RandN => \A k \in 1..Len(x) : x[k] = 0

C9_Witness ==
    /\ spc = "masked" /\ mask_p = RandN
    /\ \E k \in 1..Len(x) : x_enc[k] # 0 /\ x[k] = 0

\* =========================================================================
\* Properties of html_table_to_df (checked under SpecHtml)
\* =========================================================================

\* the tr elements holding at least one td, in document order
DataRows(t) == SelectSeq(t, LAMBDA r : Len(r.td) > 0)

HeaderFound(t) == \E k \in 1..Len(t) : Len(t[k].th) > 0

FirstHeaderCount(t) ==
    Len(t[CHOOSE k \in 1..Len(t) :
            Len(t[k].th) > 0 /\ \A j \in 1..(k - 1) : Len(t[j].th) = 0].th)

FirstDataCount(t) == IF DataRows(t) = <<>> THEN 0 ELSE Len(DataRows(t)[1].td)

TitlesMismatch(t) == HeaderFound(t) /\ FirstHeaderCount(t) # FirstDataCount(t)

\* C10: the call either raises the column-titles exception, exactly when
\* header cells were found and their count differs from the td count of the
\* first data row, or returns a frame with one row per data row in which
\* every td text sits at its (row, column) position; nothing else happens
C10_ParsesEveryTable ==
    hpc = "done" =>
        \/ raised = "ColumnTitles" /\ TitlesMismatch(table)
        \/ /\ raised = "none" /\ ~TitlesMismatch(table)
           /\ Len(df) = Len(DataRows(table))
           /\ \A r \in 1..Len(df) : \A c \in 1..Len(DataRows(table)[r].td) :
                 /\ c <= Len(df[r])
                 /\ df[r][c].text = DataRows(table)[r].td[c]

====
